---------------------------- MODULE Spec2Model ----------------------------
(***************************************************************************)
(* A model of the m2mclient protocol engine: the bencode codec             *)
(* (bencode.py), the packet registry (packetbase.py, packets.py), the      *)
(* dispatcher (dispatcher.py) and the client with its websocket worker     *)
(* thread (client.py).                                                     *)
(*                                                                         *)
(* Bytes are sequences of one-character strings.  Python values are        *)
(* records of one uniform shape, tagged by t:                              *)
(*   "int"   n is the number                                               *)
(*   "bytes" b is the byte sequence                                        *)
(*   "str"   b is the character sequence of a Python str (never equal to   *)
(*           a bytes value: in Python 3  b'ok' != 'ok')                    *)
(*   "list"  items are the elements                                        *)
(*   "dict"  items are key1, value1, key2, value2, ... in insertion order  *)
(*   "none"  Python's None                                                 *)
(***************************************************************************)
EXTENDS Integers, Sequences, FiniteSets, TLC

\* ------------------------------------------------------------------------
\* Bounds of the model
\* ------------------------------------------------------------------------

\* calls of M2MClient.command over the whole run
MaxCommands == 2

\* binary frames the transport delivers over the whole run
MaxFrames == 2

\* the longest input given to bencode.decode on its own
MaxInputLen == 3

\* the values given to bencode.encode on their own: integers of absolute
\* value up to MaxInt, containers of up to MaxItems items, nested to MaxDepth
MaxInt == 1

MaxItems == 2

MaxDepth == 2

\* ------------------------------------------------------------------------
\* Python values
\* ------------------------------------------------------------------------

VInt(n) == [t |-> "int", n |-> n, b |-> <<>>, items |-> <<>>]

VBytes(bs) == [t |-> "bytes", n |-> 0, b |-> bs, items |-> <<>>]

VStr(cs) == [t |-> "str", n |-> 0, b |-> cs, items |-> <<>>]

VList(xs) == [t |-> "list", n |-> 0, b |-> <<>>, items |-> xs]

VDict(kvs) == [t |-> "dict", n |-> 0, b |-> <<>>, items |-> kvs]

VNone == [t |-> "none", n |-> 0, b |-> <<>>, items |-> <<>>]

\* dict.get(key, default): keys compare by Python equality, so a str key
\* never finds a bytes key
DictGet(d, key, default) ==
    IF \E i \in 1..(Len(d.items) \div 2) : d.items[2 * i - 1] = key
    THEN LET i == CHOOSE j \in 1..(Len(d.items) \div 2) : d.items[2 * j - 1] = key
         IN d.items[2 * i]
    ELSE default

\* dict(kv) for a list of pairs given flat: a repeated key keeps its first
\* position and takes the last value
RECURSIVE DictFromPairs(_, _)
DictFromPairs(flat, acc) ==
    IF Len(flat) < 2 THEN acc
    ELSE LET k == flat[1]
             v == flat[2]
             rest == SubSeq(flat, 3, Len(flat))
             n == Len(acc) \div 2
         IN IF \E i \in 1..n : acc[2 * i - 1] = k
            THEN LET i == CHOOSE j \in 1..n : acc[2 * j - 1] = k
                 IN DictFromPairs(rest, [acc EXCEPT ![2 * i] = v])
            ELSE DictFromPairs(rest, acc \o <<k, v>>)

\* ------------------------------------------------------------------------
\* bencode.py: decode
\* ------------------------------------------------------------------------

Digits == {"0", "1", "2", "3", "4", "5", "6", "7", "8", "9"}

DigitVal(c) ==
    CASE c = "0" -> 0 [] c = "1" -> 1 [] c = "2" -> 2 [] c = "3" -> 3
      [] c = "4" -> 4 [] c = "5" -> 5 [] c = "6" -> 6 [] c = "7" -> 7
      [] c = "8" -> 8 [] c = "9" -> 9

\* bytes.isdigit(): false for the empty byte string
IsDigit(c) == Len(c) = 1 /\ c[1] \in Digits

RECURSIVE DecimalValue(_, _)
DecimalValue(bs, acc) ==
    IF bs = <<>> THEN acc
    ELSE DecimalValue(Tail(bs), 10 * acc + DigitVal(bs[1]))

\* int(bytes): an optional sign and at least one decimal digit; anything
\* else is a ValueError (the byte alphabet of the model has no whitespace
\* and no underscore)
PyInt(bs) ==
    LET signed == bs # <<>> /\ bs[1] \in {"-", "+"}
        digits == IF signed THEN Tail(bs) ELSE bs
    IN IF digits = <<>> \/ \E i \in 1..Len(digits) : digits[i] \notin Digits
       THEN [ok |-> FALSE, n |-> 0]
       ELSE [ok |-> TRUE,
             n |-> IF signed /\ bs[1] = "-"
                   THEN 0 - DecimalValue(digits, 0)
                   ELSE DecimalValue(digits, 0)]

\* io.BytesIO.read(1) at position pos: the next byte, or b'' at end of input
Read1(data, pos) == IF pos <= Len(data) THEN <<data[pos]>> ELSE <<>>

\* io.BytesIO.read(size): up to size bytes; all the rest when size < 0
ReadN(data, pos, size) ==
    LET avail == IF pos <= Len(data) THEN Len(data) - pos + 1 ELSE 0
        take == IF size < 0 \/ size > avail THEN avail ELSE size
    IN [v |-> SubSeq(data, pos, pos + take - 1), pos |-> pos + take]

\* the outcome of a decoding step: st is "ok", the name of the exception
\* raised, or "hang" when the loop never ends; pos is the reader's position
DecodeResult(st, v, pos) == [st |-> st, v |-> v, pos |-> pos]

\* a value that can be a dict key (lists and dicts are unhashable)
Hashable(v) == v.t \notin {"list", "dict"}

RECURSIVE _decode(_, _)
RECURSIVE DecodeInteger(_, _, _)
RECURSIVE DecodeList(_, _, _)
RECURSIVE DecodeDict(_, _, _)
RECURSIVE DecodeBytes(_, _, _)

\* the integer branch of _decode: read up to 'e'
DecodeInteger(data, pos, number_bytes) ==
    LET c == Read1(data, pos)
    IN IF IsDigit(c)
       THEN DecodeInteger(data, pos + 1, number_bytes \o c)
       ELSE IF c # <<"e">>
       THEN DecodeResult("DecodeError", VNone, pos + Len(c))
       ELSE IF PyInt(number_bytes).ok
       THEN DecodeResult("ok", VInt(PyInt(number_bytes).n), pos + 1)
       ELSE DecodeResult("ValueError", VNone, pos + 1)

\* the list branch of _decode: items up to the end marker
DecodeList(data, pos, l) ==
    LET i == _decode(data, pos)
    IN IF i.st # "ok" THEN i
       ELSE IF i.v = VNone THEN DecodeResult("ok", VList(l), i.pos)
       ELSE DecodeList(data, i.pos, Append(l, i.v))

\* the dict branch of _decode: a key, then a value that is not checked
\* against the end marker
DecodeDict(data, pos, kv) ==
    LET k == _decode(data, pos)
    IN IF k.st # "ok" THEN k
       ELSE IF k.v = VNone
       THEN IF \E j \in 1..(Len(kv) \div 2) : ~Hashable(kv[2 * j - 1])
            THEN DecodeResult("TypeError", VNone, k.pos)
            ELSE DecodeResult("ok", VDict(DictFromPairs(kv, <<>>)), k.pos)
       ELSE LET v == _decode(data, k.pos)
            IN IF v.st # "ok" THEN v
               ELSE DecodeDict(data, v.pos, kv \o <<k.v, v.v>>)

\* the byte string branch of _decode: the size up to ':', then the bytes.
\* At end of input read(1) returns b'' for ever and the loop never ends.
DecodeBytes(data, pos, size_bytes) ==
    LET c == Read1(data, pos)
    IN IF c = <<>>
       THEN DecodeResult("hang", VNone, pos)
       ELSE IF c # <<":">>
       THEN DecodeBytes(data, pos + 1, size_bytes \o c)
       ELSE IF ~PyInt(size_bytes).ok
       THEN DecodeResult("ValueError", VNone, pos + 1)
       ELSE LET r == ReadN(data, pos + 1, PyInt(size_bytes).n)
            IN DecodeResult("ok", VBytes(r.v), r.pos)

_decode(data, pos) ==
    LET obj_type == Read1(data, pos)
    IN IF obj_type = <<"e">> THEN DecodeResult("ok", VNone, pos + 1)
       ELSE IF obj_type = <<"i">> THEN DecodeInteger(data, pos + 1, <<>>)
       ELSE IF obj_type = <<"l">> THEN DecodeList(data, pos + 1, <<>>)
       ELSE IF obj_type = <<"d">> THEN DecodeDict(data, pos + 1, <<>>)
       ELSE DecodeBytes(data, pos + Len(obj_type), obj_type)

decode(data) == _decode(data, 1)

\* ------------------------------------------------------------------------
\* bencode.py: encode
\* ------------------------------------------------------------------------

DigitChars == <<"0", "1", "2", "3", "4", "5", "6", "7", "8", "9">>

RECURSIVE NatToBytes(_)
NatToBytes(n) ==
    IF n < 10 THEN <<DigitChars[n + 1]>>
    ELSE NatToBytes(n \div 10) \o <<DigitChars[(n % 10) + 1]>>

\* int2ascii: str(n).encode('ascii')
int2ascii(n) == IF n < 0 THEN <<"-">> \o NatToBytes(0 - n) ELSE NatToBytes(n)

\* the bytes of the model in ascending order of their value
ByteOrder ==
    <<"-", "0", "1", "2", "3", "4", "5", "6", "7", "8", "9", ":",
      "a", "b", "c", "d", "e", "f", "g", "h", "i", "j", "k", "l", "m",
      "n", "o", "p", "q", "r", "s", "t", "u", "v", "w", "x", "y", "z",
      "xFF">>

ByteOrd(c) == CHOOSE i \in 1..Len(ByteOrder) : ByteOrder[i] = c

\* x < y for byte strings, as sorted() compares them
BytesLess(x, y) ==
    \E i \in 1..(Len(x) + 1) :
        /\ i <= Len(y)
        /\ \A j \in 1..(i - 1) : x[j] = y[j]
        /\ (i = Len(x) + 1 \/ ByteOrd(x[i]) < ByteOrd(y[i]))

\* the keys of the dict value d, in insertion order
Keys(d) == [i \in 1..(Len(d.items) \div 2) |-> d.items[2 * i - 1]]

\* the keys in descending order
RECURSIVE SortedKeysDescending(_)
SortedKeysDescending(keys) ==
    IF keys = {} THEN <<>>
    ELSE LET greatest == CHOOSE k \in keys :
                             \A other \in keys \ {k} : BytesLess(other.b, k.b)
         IN <<greatest>> \o SortedKeysDescending(keys \ {greatest})

\* sorted(keys) for byte string keys
RECURSIVE SortedKeys(_)
SortedKeys(keys) ==
    IF keys = {} THEN <<>>
    ELSE LET least == CHOOSE k \in keys :
                          \A other \in keys \ {k} : BytesLess(k.b, other.b)
         IN <<least>> \o SortedKeys(keys \ {least})

\* the outcome of encode: st is "ok" or the name of the exception raised
EncodeResult(st, b) == [st |-> st, b |-> b]

RECURSIVE add_encode(_)
RECURSIVE EncodeItems(_, _)
RECURSIVE EncodeDictItems(_, _, _)

\* the list branch of add_encode: each item in turn
EncodeItems(items, acc) ==
    IF items = <<>> THEN EncodeResult("ok", acc)
    ELSE LET head == add_encode(items[1])
         IN IF head.st # "ok" THEN head
            ELSE EncodeItems(Tail(items), acc \o head.b)

\* the dict branch of add_encode: each sorted key, which must be bytes,
\* then its value
EncodeDictItems(d, keys, acc) ==
    IF keys = <<>> THEN EncodeResult("ok", acc)
    ELSE IF keys[1].t # "bytes" THEN EncodeResult("EncodeError", <<>>)
    ELSE LET k == add_encode(keys[1])
             v == add_encode(DictGet(d, keys[1], VNone))
         IN IF v.st # "ok" THEN v
            ELSE EncodeDictItems(d, Tail(keys), acc \o k.b \o v.b)

add_encode(obj) ==
    IF obj.t \in {"bytes", "str"}
    THEN EncodeResult("ok", int2ascii(Len(obj.b)) \o <<":">> \o obj.b)
    ELSE IF obj.t = "int"
    THEN EncodeResult("ok", <<"i">> \o int2ascii(obj.n) \o <<"e">>)
    ELSE IF obj.t = "list"
    THEN LET r == EncodeItems(obj.items, <<"l">>)
         IN IF r.st # "ok" THEN r ELSE EncodeResult("ok", r.b \o <<"e">>)
    ELSE IF obj.t = "dict"
    THEN LET keys == {Keys(obj)[i] : i \in DOMAIN Keys(obj)}
         IN IF \E k \in keys : k.t # "bytes"
            THEN \* sorted() raises TypeError on keys of different types
                 IF \E k1, k2 \in keys : k1.t # k2.t
                 THEN EncodeResult("TypeError", <<>>)
                 ELSE EncodeResult("EncodeError", <<>>)
            ELSE LET r == EncodeDictItems(obj, SortedKeys(keys), <<"d">>)
                 IN IF r.st # "ok" THEN r
                    ELSE EncodeResult("ok", r.b \o <<"e">>)
    ELSE EncodeResult("EncodeError", <<>>)

encode(obj) == add_encode(obj)

\* Python's == on values: dicts are equal whatever their insertion order
RECURSIVE PyEq(_, _)
PyEq(v, w) ==
    /\ v.t = w.t
    /\ v.n = w.n
    /\ v.b = w.b
    /\ Len(v.items) = Len(w.items)
    /\ IF v.t = "dict"
       THEN \A i \in DOMAIN Keys(v) :
                /\ \E j \in DOMAIN Keys(w) : Keys(w)[j] = Keys(v)[i]
                /\ PyEq(DictGet(v, Keys(v)[i], VNone),
                        DictGet(w, Keys(v)[i], VNone))
       ELSE \A i \in DOMAIN v.items : PyEq(v.items[i], w.items[i])

\* ------------------------------------------------------------------------
\* packets.py, packetbase.py: the registry and the construction of packets
\* ------------------------------------------------------------------------

\* the byte 0xFF, the one byte of the model that is not valid UTF-8
XFF == "xFF"

\* PacketBase.registry as PacketMeta fills it: the tag of every packet
\* class of packets.py, mapped to its attributes; <<>> for a tag that no
\* class has
attributes(tag) ==
    CASE tag = 2 -> << <<"uuid", "bytes">> >>
      [] tag = 4 -> << <<"text", "bytes">> >>
      [] tag \in {5, 6, 21, 22} -> << <<"port", "int">>, <<"data", "bytes">> >>
      [] tag \in {7, 8} -> << <<"data", "bytes">> >>
      [] tag = 9 -> << <<"identity", "bytes">> >>
      [] tag \in {11, 14, 19} -> << <<"port", "int">> >>
      [] tag = 15 -> << <<"username", "bytes">>, <<"password", "bytes">> >>
      [] tag = 16 -> << <<"sender", "bytes">>, <<"data", "dict">> >>
      [] tag = 17 -> << <<"user", "bytes">> >>
      [] tag = 18 -> << <<"message", "bytes">> >>
      [] tag = 23 -> << <<"name", "bytes">> >>
      [] tag = 100 -> << <<"command_id", "int">>, <<"result", "dict">> >>
      [] tag = 101 -> << <<"command_id", "int">>, <<"node1", "bytes">>,
                         <<"port1", "int">>, <<"node2", "bytes">>,
                         <<"port2", "int">>, <<"requester", "bytes">>,
                         <<"forwarded", "int">> >>
      [] tag = 102 -> << <<"command_id", "int">>, <<"node", "bytes">>,
                         <<"data", "dict">> >>
      [] tag = 103 -> << <<"command_id", "int">>, <<"node", "bytes">>,
                         <<"text", "bytes">> >>
      [] tag = 104 -> << <<"command_id", "int">>, <<"text", "bytes">> >>
      [] tag = 106 -> << <<"command_id", "int">>, <<"node", "bytes">>,
                         <<"name", "bytes">> >>
      [] tag \in {107, 108} -> << <<"command_id", "int">>, <<"nodes", "list">> >>
      [] tag = 109 -> << <<"command_id", "int">>, <<"expire", "int">>,
                         <<"value", "bytes">> >>
      [] tag = 110 -> << <<"command_id", "int">>, <<"requester", "bytes">>,
                         <<"node", "bytes">>, <<"key", "bytes">>,
                         <<"value", "bytes">> >>
      [] tag = 111 -> << <<"command_id", "int">>, <<"requester", "bytes">>,
                         <<"node", "bytes">> >>
      [] OTHER -> <<>>

\* the keys of PacketBase.registry
registry ==
    (0..9) \cup {11} \cup (13..23) \cup (100..104) \cup (106..111)

\* RequestSend and Route replace __repr__ by one that reads self.port and
\* self.data, which are not set while __init__ is still checking
ReprReadsAttributes(tag) == tag \in {5, 6}

\* the outcome of building or parsing a packet: exc is "none" or the name
\* of the exception raised ("hang" when the call never returns)
PacketResult(exc, type, vals) == [exc |-> exc, type |-> type, vals |-> vals]

\* PacketBase.__init__ with positional arguments: a str is encoded to
\* bytes, a missing or ill-typed attribute raises while formatting the
\* packet into the message, surplus arguments are dropped by zip
RECURSIVE PacketInitFrom(_, _, _, _)
PacketInitFrom(tag, args, i, vals) ==
    LET attrs == attributes(tag)
        bad == IF ReprReadsAttributes(tag)
               THEN PacketResult("AttributeError", tag, <<>>)
               ELSE PacketResult("packetbase.PacketFormatError", tag, <<>>)
    IN IF i > Len(attrs) THEN PacketResult("none", tag, vals)
       ELSE IF i > Len(args) THEN bad
       ELSE LET value == IF args[i].t = "str" THEN VBytes(args[i].b) ELSE args[i]
            IN IF value.t # attrs[i][2] THEN bad
               ELSE PacketInitFrom(tag, args, i + 1, Append(vals, value))

PacketInit(tag, args) == PacketInitFrom(tag, args, 1, <<>>)

\* PacketBase.create, for a tag process_packet_type has resolved
create(tag, args) ==
    IF tag \notin registry THEN PacketResult("ValueError", tag, <<>>)
    ELSE PacketInit(tag, args)

\* PacketBase.from_bytes
from_bytes(packet_bytes) ==
    IF Read1(packet_bytes, 1) # <<"l">>
    THEN PacketResult("packetbase.PacketFormatError", -1, <<>>)
    ELSE LET d == decode(packet_bytes)
         IN IF d.st = "DecodeError"
            THEN PacketResult("packetbase.PacketFormatError", -1, <<>>)
            ELSE IF d.st # "ok"
            THEN PacketResult(d.st, -1, <<>>)
            ELSE IF d.v.items = <<>>
            THEN PacketResult("ValueError", -1, <<>>)
            ELSE IF d.v.items[1].t # "int"
            THEN PacketResult("packetbase.PacketFormatError", -1, <<>>)
            ELSE IF d.v.items[1].n \notin registry
            THEN PacketResult("UnknownPacketError", d.v.items[1].n, <<>>)
            ELSE PacketInit(d.v.items[1].n, Tail(d.v.items))

\* PacketBase.kwargs: the value of the attribute called name
Attr(packet, name) ==
    LET attrs == attributes(packet.type)
        i == CHOOSE j \in 1..Len(attrs) : attrs[j][1] = name
    IN packet.vals[i]

\* the text put in place of a password: '********'
Masked == VStr(<<"*", "*", "*", "*", "*", "*", "*", "*">>)

\* M2MPacket.summarize: a byte string of more than 32 bytes is shown as
\* its length
summarize(data) ==
    IF data.t = "bytes" /\ Len(data.b) > 32
    THEN VStr(<<"<">> \o int2ascii(Len(data.b))
              \o <<" ", "b", "y", "t", "e", "s", ">">>)
    ELSE data

\* a __repr__ that shows every attribute as it is
repr_cleartext(packet) ==
    [class |-> packet.type,
     params |-> [i \in 1..Len(packet.vals) |->
                    <<attributes(packet.type)[i][1], packet.vals[i]>>]]

\* __repr__ of a constructed packet: the class and, for each attribute in
\* declared order, its name and what is shown for its value; RequestSend
\* and Route show the port and the summary of the data
repr(packet) ==
    [class |-> packet.type,
     params |-> [i \in 1..Len(packet.vals) |->
                    LET name == attributes(packet.type)[i][1]
                    IN IF ReprReadsAttributes(packet.type)
                       THEN <<name, IF name = "data"
                                    THEN summarize(packet.vals[i])
                                    ELSE packet.vals[i]>>
                       ELSE <<name, IF name # "password" THEN packet.vals[i]
                                    ELSE Masked>>]]

\* PacketBase.as_bytes: the encoding of the list of the packet type and the
\* attribute values in declared order
generic_as_bytes(packet) ==
    encode(VList(<<VInt(packet.type)>> \o packet.vals))

\* as_bytes whose NotifyOpen and NotifyClose write the port without its sign
as_bytes_unsigned_port(packet) ==
    IF packet.type \in {14, 19}
    THEN LET port == packet.vals[1].n
         IN EncodeResult("ok", <<"l", "i">> \o int2ascii(packet.type)
                               \o <<"e", "i">>
                               \o NatToBytes(IF port < 0 THEN 0 - port
                                             ELSE port)
                               \o <<"e", "e">>)
    ELSE generic_as_bytes(packet)

\* b'%i:%s' % (len(data), data)
LengthAndBytes(data) == int2ascii(Len(data.b)) \o <<":">> \o data.b

\* as_bytes of a packet: the constants of Null and Welcome, the format
\* strings of Log, Route, Ping, SetIdentity, NotifyOpen and NotifyClose,
\* and PacketBase.as_bytes for every other class
as_bytes(packet) ==
    CASE packet.type = 0 -> EncodeResult("ok", <<"l", "i", "0", "e", "e">>)
      [] packet.type = 3 -> EncodeResult("ok", <<"l", "i", "3", "e", "e">>)
      [] packet.type = 4 ->
            EncodeResult("ok", <<"l", "i", "4", "e">>
                               \o LengthAndBytes(Attr(packet, "text"))
                               \o <<"e">>)
      [] packet.type = 6 ->
            EncodeResult("ok", <<"l", "i", "6", "e", "i">>
                               \o int2ascii(Attr(packet, "port").n)
                               \o <<"e">>
                               \o LengthAndBytes(Attr(packet, "data"))
                               \o <<"e">>)
      [] packet.type = 7 ->
            EncodeResult("ok", <<"l", "i", "7", "e">>
                               \o LengthAndBytes(Attr(packet, "data"))
                               \o <<"e">>)
      [] packet.type = 9 ->
            EncodeResult("ok", <<"l", "i", "9", "e">>
                               \o LengthAndBytes(Attr(packet, "identity"))
                               \o <<"e">>)
      [] packet.type = 14 ->
            EncodeResult("ok", <<"l", "i", "1", "4", "e", "i">>
                               \o int2ascii(Attr(packet, "port").n)
                               \o <<"e", "e">>)
      [] packet.type = 19 ->
            EncodeResult("ok", <<"l", "i", "1", "9", "e", "i">>
                               \o int2ascii(Attr(packet, "port").n)
                               \o <<"e", "e">>)
      [] OTHER -> generic_as_bytes(packet)

\* ------------------------------------------------------------------------
\* dispatcher.py
\* ------------------------------------------------------------------------

\* Dispatcher._init_dispatcher on an M2MClient: the packet types of the
\* methods marked with @expose (on_command, handle_set_identitiy,
\* handle_welcome, handle_notify_login_success, handle_notify_login_fail,
\* handle_log)
ExposedHandlers == {100, 9, 3, 17, 18, 4}

\* method.__annotations__ of the handler of a packet type: the parameters
\* coerced with bytes.decode
Annotations(tag) ==
    CASE tag = 17 -> {"user"}
      [] tag = 18 -> {"message"}
      [] tag = 4 -> {"text"}
      [] OTHER -> {}

\* bytes.decode succeeds on valid UTF-8 only
Utf8Valid(bs) == \A i \in 1..Len(bs) : bs[i] # XFF

\* the coercion loop of Dispatcher.dispatch_packet: whether every
\* annotated parameter is converted without an exception
CoercionsSucceed(packet) ==
    \A name \in Annotations(packet.type) : Utf8Valid(Attr(packet, name).b)

\* ------------------------------------------------------------------------
\* Frames the server side may put on the wire
\* ------------------------------------------------------------------------

\* response to command 1, status ok: b'li100ei1ed6:status2:okee'
FrameResponseOk1 ==
    <<"l", "i", "1", "0", "0", "e", "i", "1", "e", "d", "6", ":", "s", "t", "a", "t", "u", "s", "2", ":", "o", "k", "e", "e">>

\* response to command 2, status ok: b'li100ei2ed6:status2:okee'
FrameResponseOk2 ==
    <<"l", "i", "1", "0", "0", "e", "i", "2", "e", "d", "6", ":", "s", "t", "a", "t", "u", "s", "2", ":", "o", "k", "e", "e">>

\* response to command 1, status fail, msg no: b'li100ei1ed3:msg2:no6:status4:failee'
FrameResponseFail1 ==
    <<"l", "i", "1", "0", "0", "e", "i", "1", "e", "d", "3", ":", "m", "s", "g", "2", ":", "n", "o", "6", ":", "s", "t", "a", "t", "u", "s", "4", ":", "f", "a", "i", "l", "e", "e">>

\* response to command 1 with an empty result: b'li100ei1edee'
FrameResponseNoStatus1 ==
    <<"l", "i", "1", "0", "0", "e", "i", "1", "e", "d", "e", "e">>

\* set_identity: b'li9e2:ide'
FrameSetIdentity ==
    <<"l", "i", "9", "e", "2", ":", "i", "d", "e">>

\* notify_login_fail: b'li18e3:bade'
FrameLoginFail ==
    <<"l", "i", "1", "8", "e", "3", ":", "b", "a", "d", "e">>

\* notify_login_success whose user is not UTF-8: b'li17e1:\xffe'
FrameLoginSuccessBadText ==
    <<"l", "i", "1", "7", "e", "1", ":", XFF, "e">>

\* notify_login_fail whose message is not UTF-8: b'li18e1:\xffe'
FrameLoginFailBadText ==
    <<"l", "i", "1", "8", "e", "1", ":", XFF, "e">>

\* keep_alive, a registered packet with no handler: b'li13ee'
FrameKeepAlive ==
    <<"l", "i", "1", "3", "e", "e">>

\* a bencoded integer, not a list: b'i1e'
FrameNotAList ==
    <<"i", "1", "e">>

\* a list holding an unterminated integer: b'li1'
FrameTruncatedInt ==
    <<"l", "i", "1">>

\* the empty list: b'le'
FrameEmptyList ==
    <<"l", "e">>

\* a list whose first element is a byte string: b'l1:ae'
FrameTagNotInt ==
    <<"l", "1", ":", "a", "e">>

\* a list whose tag 99 is not registered: b'li99ee'
FrameUnknownTag ==
    <<"l", "i", "9", "9", "e", "e">>

\* a response without its attributes: b'li100ee'
FrameMissingAttribute ==
    <<"l", "i", "1", "0", "0", "e", "e">>

\* a response whose result is a byte string: b'li100ei1e1:ae'
FrameIllTypedAttribute ==
    <<"l", "i", "1", "0", "0", "e", "i", "1", "e", "1", ":", "a", "e">>

\* a list that never ends: b'l'
FrameUnterminatedList ==
    <<"l">>

Frames ==
    {FrameResponseOk1,
     FrameResponseOk2,
     FrameResponseFail1,
     FrameResponseNoStatus1,
     FrameSetIdentity,
     FrameLoginFail,
     FrameLoginSuccessBadText,
     FrameLoginFailBadText,
     FrameKeepAlive,
     FrameNotAList,
     FrameTruncatedInt,
     FrameEmptyList,
     FrameTagNotInt,
     FrameUnknownTag,
     FrameMissingAttribute,
     FrameIllTypedAttribute,
     FrameUnterminatedList}

\* M2MPacket.from_bytes(data) for each frame
Decoded == [data \in Frames |-> from_bytes(data)]

\* ------------------------------------------------------------------------
\* client.py: the state of one M2MClient, its WebSocketThread and the
\* threads that call the client
\* ------------------------------------------------------------------------

\* the threads calling the client: "main" runs the with statement
\* (__enter__, __exit__), both issue commands inside or after it and
\* wait for the results
Callers == {"main", "aux"}

VARIABLES
    command_id,      \* M2MClient.command_id
    command_events,  \* M2MClient.command_events: command id -> index in slots
    slots,           \* every CommandResult created so far, in creation order
    client_ws,       \* M2MClient.ws: "thread" or "None"
    handlers,        \* Dispatcher._packet_handlers: the packet types bound
    identity,        \* M2MClient._identity
    identity_event,  \* M2MClient.identity_event
    credentials,     \* whether username and password are str (else None)
    running,         \* WebSocketThread.running
    ready_event,     \* WebSocketThread.ready_event
    error,           \* WebSocketThread.error
    transport,       \* the websocket behind WebSocketThread.ws
    wire,            \* the packets handed to WebSocket.send_binary, in order
    nframes,         \* binary events delivered so far
    wpc,             \* where the worker thread is in WebSocketThread.run
    wexc,            \* the exception that left run(), and what raised it
    life,            \* the with statement of "main"
    pc,              \* where each caller is
    loc,             \* each caller's locals
    cexc,            \* the exception the last call raised into each caller
    enter_error,     \* the argument of the ConnectionError of __enter__
    missing,         \* the packet types on_missing_handler has logged
    probe            \* a call of the codec or of the packet layer on its own

vars ==
    <<command_id, command_events, slots, client_ws, handlers, identity,
      identity_event, credentials, running, ready_event, error, transport,
      wire, nframes, wpc, wexc, life, pc, loc, cexc, enter_error, missing,
      probe>>

configVars == <<credentials, probe>>

clientVars == <<command_id, command_events, slots, client_ws, handlers>>

identityVars == <<identity, identity_event>>

threadVars == <<running, ready_event, error>>

workerVars == <<nframes, wpc, wexc>>

callerVars == <<life, pc, loc, cexc>>

\* CommandResult.__init__, with the history the properties speak about:
\* cid the id the command was given, sets the number of calls of set,
\* sent whether the request reached send_binary, got how get ended
\* ("none" while it has not)
NewCommandResult(cid) ==
    [result |-> VNone, event |-> FALSE,
     cid |-> cid, sets |-> 0, sent |-> FALSE, got |-> "none"]

\* no exception has left run(); otherwise exc is its name ("hang" for a
\* call that never returns) and from the call that raised it
NoException == [exc |-> "none", from |-> "none"]

\* op is the packet the command sends: "log" for command_broadcast_log,
\* "get_meta" for command_get_meta with the requester get_identity gave
CallerIdle ==
    [tmp |-> 0, cid |-> 0, handle |-> 0, op |-> "log", requester |-> VNone]

\* a call of the codec or of the packet layer about to be made: op names
\* the call, arg is its argument, and once done encoded is the outcome of
\* the encoder, out of the decoder, built of the packet constructor,
\* parsed of from_bytes and shown of __repr__; at is the statement a loop
\* of the decoder that reads past the end of the input has reached
Call(op, arg) ==
    [op |-> op, arg |-> arg, done |-> FALSE,
     encoded |-> [st |-> "none", b |-> <<>>],
     out |-> [st |-> "none", v |-> VNone, pos |-> 0],
     built |-> [exc |-> "unset", type |-> -1, vals |-> <<>>],
     parsed |-> [exc |-> "unset", type |-> -1, vals |-> <<>>],
     shown |-> [class |-> -1, params |-> <<>>],
     at |-> "read"]

\* no call of the codec is made
NoProbe == Call("none", VNone)

ClientInit ==
    /\ command_id = 0
    /\ command_events = <<>>
    /\ slots = <<>>
    /\ client_ws = "thread"
    /\ handlers = ExposedHandlers
    /\ identity = VNone
    /\ identity_event = FALSE
    /\ credentials \in BOOLEAN
    /\ running = FALSE
    /\ ready_event = FALSE
    /\ error = "None"
    /\ transport = "new"
    /\ wire = <<>>
    /\ nframes = 0
    /\ wpc = "new"
    /\ wexc = NoException
    /\ life = "new"
    /\ pc = [c \in Callers |-> "idle"]
    /\ loc = [c \in Callers |-> CallerIdle]
    /\ cexc = [c \in Callers |-> "none"]
    /\ enter_error = "none"
    /\ missing = {}

Init ==
    /\ ClientInit
    /\ probe = NoProbe

\* the slots that are values of command_events
Pending == {command_events[k] : k \in DOMAIN command_events}

\* dict d without key k
Without(d, k) == [j \in DOMAIN d \ {k} |-> d[j]]

\* dict d with d[k] = v
With(d, k, v) == [j \in DOMAIN d \cup {k} |-> IF j = k THEN v ELSE d[j]]

\* CommandResult.set on slot i of heap
set(heap, i, result) ==
    [heap EXCEPT ![i].result = result, ![i].event = TRUE, ![i].sets = @ + 1]

\* ------------------------------------------------------------------------
\* WebSocketThread.run: one action per event of the websocket
\* ------------------------------------------------------------------------

\* an exception leaves the for loop of run() for its finally block
Raise(exc, from) ==
    /\ wexc' = [exc |-> exc, from |-> from]
    /\ wpc' = "finally"

\* event.name == 'rejected'
OnRejected ==
    /\ wpc = "loop"
    /\ transport = "connecting"
    /\ error' = "rejected"
    /\ transport' = "refused"
    /\ UNCHANGED <<clientVars, identityVars, configVars, missing, enter_error,
                   running,
                   ready_event, wire, workerVars, callerVars>>

\* event.name == 'disconnected': the last event, the for loop ends
OnDisconnected(graceful) ==
    /\ wpc = "loop"
    /\ transport \in {"connecting", "refused", "open", "closing"}
    /\ transport \in {"connecting", "refused"} => ~graceful
    /\ error' = IF graceful \/ transport = "refused" THEN error
                ELSE "disconnected"
    /\ transport' = "closed"
    /\ wpc' = "finally"
    /\ UNCHANGED <<clientVars, identityVars, configVars, missing, enter_error,
                   running,
                   ready_event, wire, nframes, wexc, callerVars>>

\* event.name == 'ready': self.running = True
OnReady ==
    /\ wpc = "loop"
    /\ transport = "connecting"
    /\ transport' = "open"
    /\ running' = TRUE
    /\ wpc' = "startup"
    /\ UNCHANGED <<clientVars, identityVars, configVars, missing, enter_error,
                   ready_event,
                   error, wire, nframes, wexc, callerVars>>

\* M2MClient.send as on_startup calls it: "ok" with the packet handed to
\* send_binary when self.ws.running, "ok" with a log line when not, or
\* the exception of create or of reading self.ws once it is None
StartupSend(tag, args, sent) ==
    LET packet == create(tag, args)
    IN IF packet.exc # "none" THEN [exc |-> packet.exc, wire |-> sent]
       ELSE IF client_ws = "None"
       THEN [exc |-> "AttributeError", wire |-> sent]
       ELSE [exc |-> "none",
             wire |-> IF running
                      THEN Append(sent, [type |-> tag, cid |-> 0])
                      ELSE sent]

\* the ready branch of run() after self.running = True: on_startup()
\* sends request_join and request_login, then self.ready_event.set()
OnStartup ==
    /\ wpc = "startup"
    /\ LET join == StartupSend(1, <<>>, wire)
           login == StartupSend(15,
                                IF credentials
                                THEN <<VStr(<<"u">>), VStr(<<"p">>)>>
                                ELSE <<VNone, VNone>>,
                                join.wire)
       IN IF join.exc # "none"
          THEN /\ Raise(join.exc, "on_startup")
               /\ UNCHANGED <<wire, ready_event>>
          ELSE IF login.exc # "none"
          THEN /\ Raise(login.exc, "on_startup")
               /\ wire' = join.wire
               /\ UNCHANGED ready_event
          ELSE /\ wire' = login.wire
               /\ ready_event' = TRUE
               /\ wpc' = "loop"
               /\ UNCHANGED wexc
    /\ UNCHANGED <<clientVars, identityVars, configVars, missing, enter_error,
                   running, error,
                   transport, nframes, callerVars>>

\* the except clause of on_binary names the PacketFormatError that
\* client.py imports from dispatcher.py
OnBinaryCatches(exc) == exc = "dispatcher.PacketFormatError"

\* an on_command that empties the table and completes every pending slot
on_command_completes_all(packet) ==
    LET k == Attr(packet, "command_id").n
    IN IF k \in DOMAIN command_events
       THEN /\ command_events' = <<>>
            /\ slots' = [i \in DOMAIN slots |->
                             IF i \in Pending
                             THEN set(slots, i, Attr(packet, "result"))[i]
                             ELSE slots[i]]
            /\ UNCHANGED <<wpc, wexc>>
       ELSE /\ Raise("UnboundLocalError", "on_command")
            /\ UNCHANGED <<command_events, slots>>

\* M2MClient.on_command: the slot popped is completed; without a slot the
\* except branch uses command_result, which is not bound
on_command(packet) ==
    LET k == Attr(packet, "command_id").n
    IN IF k \in DOMAIN command_events
       THEN /\ command_events' = Without(command_events, k)
            /\ slots' = set(slots, command_events[k], Attr(packet, "result"))
            /\ UNCHANGED <<wpc, wexc>>
       ELSE /\ Raise("UnboundLocalError", "on_command")
            /\ UNCHANGED <<command_events, slots>>

\* a dispatch_packet that raises when no handler is bound
dispatch_packet_missing_raises(packet) ==
    IF packet.type \notin handlers
    THEN /\ Raise("KeyError", "handler")
         /\ UNCHANGED <<command_events, slots, identityVars, missing>>
    ELSE IF ~CoercionsSucceed(packet)
    THEN /\ Raise("dispatcher.PacketFormatError", "coercion")
         /\ UNCHANGED <<command_events, slots, identityVars, missing>>
    ELSE IF packet.type = 100
    THEN /\ on_command(packet)
         /\ UNCHANGED <<identityVars, missing>>
    ELSE IF packet.type = 9
    THEN \* handle_set_identitiy, its first statement
         /\ identity' = Attr(packet, "identity")
         /\ wpc' = "set_identity"
         /\ UNCHANGED <<command_events, slots, identity_event, wexc,
                        missing>>
    ELSE IF packet.type = 18
    THEN \* handle_notify_login_fail
         /\ Raise("M2MAuthFailed", "handler")
         /\ UNCHANGED <<command_events, slots, identityVars, missing>>
    ELSE \* handle_welcome, handle_notify_login_success, handle_log
         UNCHANGED <<command_events, slots, identityVars, wpc, wexc,
                     missing>>

\* a dispatch_packet that calls the handler without the coercions
dispatch_packet_uncoerced(packet) ==
    IF packet.type \notin handlers
    THEN \* on_missing_handler
         /\ missing' = missing \cup {packet.type}
         /\ UNCHANGED <<command_events, slots, identityVars, wpc, wexc>>
    ELSE IF packet.type = 100
    THEN /\ on_command(packet)
         /\ UNCHANGED <<identityVars, missing>>
    ELSE IF packet.type = 9
    THEN \* handle_set_identitiy, its first statement
         /\ identity' = Attr(packet, "identity")
         /\ wpc' = "set_identity"
         /\ UNCHANGED <<command_events, slots, identity_event, wexc,
                        missing>>
    ELSE IF packet.type = 18
    THEN \* handle_notify_login_fail
         /\ Raise("M2MAuthFailed", "handler")
         /\ UNCHANGED <<command_events, slots, identityVars, missing>>
    ELSE \* handle_welcome, handle_notify_login_success, handle_log
         UNCHANGED <<command_events, slots, identityVars, wpc, wexc,
                     missing>>

\* Dispatcher.dispatch_packet: no handler bound, then the coercions, then
\* the handler; what the handler raises is raised again
dispatch_packet(packet) ==
    IF packet.type \notin handlers
    THEN \* on_missing_handler
         /\ missing' = missing \cup {packet.type}
         /\ UNCHANGED <<command_events, slots, identityVars, wpc, wexc>>
    ELSE IF ~CoercionsSucceed(packet)
    THEN /\ Raise("dispatcher.PacketFormatError", "coercion")
         /\ UNCHANGED <<command_events, slots, identityVars, missing>>
    ELSE IF packet.type = 100
    THEN /\ on_command(packet)
         /\ UNCHANGED <<identityVars, missing>>
    ELSE IF packet.type = 9
    THEN \* handle_set_identitiy, its first statement
         /\ identity' = Attr(packet, "identity")
         /\ wpc' = "set_identity"
         /\ UNCHANGED <<command_events, slots, identity_event, wexc,
                        missing>>
    ELSE IF packet.type = 18
    THEN \* handle_notify_login_fail
         /\ Raise("M2MAuthFailed", "handler")
         /\ UNCHANGED <<command_events, slots, identityVars, missing>>
    ELSE \* handle_welcome, handle_notify_login_success, handle_log
         UNCHANGED <<command_events, slots, identityVars, wpc, wexc,
                     missing>>

\* event.name == 'binary': WebSocketThread.on_binary
OnBinary(data) ==
    /\ wpc = "loop"
    /\ transport \in {"open", "closing"}
    /\ nframes < MaxFrames
    /\ nframes' = nframes + 1
    /\ LET packet == Decoded[data]
       IN IF packet.exc = "hang"
          THEN /\ wpc' = "hung"
               /\ wexc' = [exc |-> "hang", from |-> "from_bytes"]
               /\ UNCHANGED <<command_events, slots, identityVars, missing>>
          ELSE IF packet.exc # "none" /\ OnBinaryCatches(packet.exc)
          THEN UNCHANGED <<command_events, slots, identityVars, wpc, wexc,
                           missing>>
          ELSE IF packet.exc # "none"
          THEN /\ Raise(packet.exc, "from_bytes")
               /\ UNCHANGED <<command_events, slots, identityVars, missing>>
          ELSE dispatch_packet(packet)
    /\ UNCHANGED <<command_id, client_ws, handlers, configVars, enter_error,
                   threadVars, transport, wire, callerVars>>

\* handle_set_identitiy, its second statement: self.identity_event.set();
\* the callers run between the two statements
IdentityEventSet ==
    /\ wpc = "set_identity"
    /\ identity_event' = TRUE
    /\ wpc' = "loop"
    /\ UNCHANGED <<clientVars, identity, configVars, missing, enter_error,
                   threadVars, transport, wire, nframes, wexc, callerVars>>

\* the finally block of run(): self.running = False and
\* self.ready_event.set(); the thread ends
RunFinally ==
    /\ wpc = "finally"
    /\ running' = FALSE
    /\ ready_event' = TRUE
    /\ wpc' = "done"
    /\ UNCHANGED <<clientVars, identityVars, configVars, missing, enter_error,
                   error, transport,
                   wire, nframes, wexc, callerVars>>

\* ------------------------------------------------------------------------
\* M2MClient as its callers run it
\* ------------------------------------------------------------------------

\* the connection is closed: the worker has ended or __exit__ has run
Closed == wpc = "done" \/ life = "exited"

\* __enter__: self.ws.start()
EnterStart(c) ==
    /\ c = "main"
    /\ life = "new"
    /\ pc[c] = "idle"
    /\ wpc = "new"
    /\ wpc' = "loop"
    /\ transport' = "connecting"
    /\ life' = "entering"
    /\ pc' = [pc EXCEPT ![c] = "enter_wait"]
    /\ UNCHANGED <<clientVars, identityVars, configVars, missing, enter_error,
                   threadVars, wire,
                   nframes, wexc, loc, cexc>>

\* an __enter__ that returns the client whatever self.ws.running is
EnterReturnAlways(c) ==
    /\ pc[c] = "enter_wait"
    /\ pc' = [pc EXCEPT ![c] = "idle"]
    /\ life' = "entered"
    /\ UNCHANGED <<clientVars, identityVars, configVars, missing,
                   threadVars, transport, wire, workerVars, loc, cexc,
                   enter_error>>

\* __enter__: ready_event.wait(connect_wait) returns, the event set or
\* the time out, and self.ws.running decides
EnterReturn(c) ==
    /\ pc[c] = "enter_wait"
    /\ pc' = [pc EXCEPT ![c] = "idle"]
    /\ IF running
       THEN /\ life' = "entered"
            /\ UNCHANGED <<cexc, enter_error>>
       ELSE /\ life' = "failed"
            /\ cexc' = [cexc EXCEPT ![c] = "ConnectionError"]
            /\ enter_error' = IF error # "None" THEN error
                              ELSE "unable to connect"
    /\ UNCHANGED <<clientVars, identityVars, configVars, missing, threadVars,
                   transport, wire, workerVars, loc>>

\* command(): the right-hand side self.command_id + 1 is read
CommandRead(c) ==
    /\ pc[c] \in {"idle", "facade"}
    /\ life \in {"entered", "exiting", "exited"}
    /\ Len(slots) + Cardinality({d \in Callers : pc[d] = "command_store"})
          < MaxCommands
    /\ loc' = [loc EXCEPT ![c] = [tmp |-> command_id + 1, cid |-> 0,
                                  handle |-> 0, op |-> loc[c].op,
                                  requester |-> loc[c].requester]]
    /\ pc' = [pc EXCEPT ![c] = "command_store"]
    /\ cexc' = [cexc EXCEPT ![c] = "none"]
    /\ UNCHANGED <<clientVars, identityVars, configVars, missing, enter_error,
                   threadVars,
                   transport, wire, workerVars, life>>

\* a get_identity that returns self._identity without waiting for the event
GetIdentityNoWait(c) ==
    /\ pc[c] = "idle"
    /\ life \in {"entered", "exiting", "exited"}
    /\ Len(slots) + Cardinality({d \in Callers : pc[d] = "command_store"})
          < MaxCommands
    /\ loc' = [loc EXCEPT ![c] = [tmp |-> 0, cid |-> 0, handle |-> 0,
                                  op |-> "get_meta",
                                  requester |-> identity]]
    /\ pc' = [pc EXCEPT ![c] = "facade"]
    /\ cexc' = [cexc EXCEPT ![c] = "none"]
    /\ UNCHANGED <<clientVars, identityVars, configVars, missing,
                   enter_error, threadVars, transport, wire, workerVars,
                   life>>

\* get_meta: identity = self.get_identity(). identity_event.wait(timeout)
\* returns True and get_identity returns self._identity, or it returns
\* False and get_identity raises NoIdentity out of get_meta
GetIdentity(c) ==
    /\ pc[c] = "idle"
    /\ life \in {"entered", "exiting", "exited"}
    /\ Len(slots) + Cardinality({d \in Callers : pc[d] = "command_store"})
          < MaxCommands
    /\ IF identity_event
       THEN /\ loc' = [loc EXCEPT ![c] = [tmp |-> 0, cid |-> 0, handle |-> 0,
                                          op |-> "get_meta",
                                          requester |-> identity]]
            /\ pc' = [pc EXCEPT ![c] = "facade"]
            /\ cexc' = [cexc EXCEPT ![c] = "none"]
       ELSE /\ cexc' = [cexc EXCEPT ![c] = "NoIdentity"]
            /\ loc' = [loc EXCEPT ![c] = CallerIdle]
            /\ UNCHANGED pc
    /\ UNCHANGED <<clientVars, identityVars, configVars, missing,
                   enter_error, threadVars, transport, wire, workerVars,
                   life>>

\* get_meta after get_identity: self.command("command_get_meta", ..)
GetMetaCommand(c) ==
    /\ pc[c] = "facade"
    /\ CommandRead(c)

\* log(): self.command('command_broadcast_log', ..)
LogCommand(c) ==
    /\ pc[c] = "idle"
    /\ CommandRead(c)

\* the value command() stores into self.command_id: the one it read
NextCommandId(c) == loc[c].tmp

\* command(): command_id = self.command_id = <the value read>, then
\* result = self.command_events[command_id] = CommandResult(..)
CommandStore(c) ==
    /\ pc[c] = "command_store"
    /\ command_id' = NextCommandId(c)
    /\ slots' = Append(slots, NewCommandResult(NextCommandId(c)))
    /\ command_events' =
           With(command_events, NextCommandId(c), Len(slots) + 1)
    /\ loc' = [loc EXCEPT ![c] = [tmp |-> 0, cid |-> NextCommandId(c),
                                  handle |-> Len(slots) + 1,
                                  op |-> loc[c].op,
                                  requester |-> loc[c].requester]]
    /\ pc' = [pc EXCEPT ![c] = "send"]
    /\ UNCHANGED <<client_ws, handlers, identityVars, configVars, missing,
                   enter_error,
                   threadVars, transport, wire, workerVars, life, cexc>>

\* send() called by command(): the packet is built (command_broadcast_log
\* with its id and a text, as M2MClient.log sends it), then
\* self.ws.running is read; an exception ends command() without a result
Send(c) ==
    /\ pc[c] = "send"
    /\ LET packet == IF loc[c].op = "get_meta"
                     THEN create(111, <<VInt(loc[c].cid), loc[c].requester,
                                        VBytes(<<"n">>)>>)
                     ELSE create(104, <<VInt(loc[c].cid),
                                        VBytes(<<"h", "i">>)>>)
       IN IF packet.exc # "none"
          THEN /\ cexc' = [cexc EXCEPT ![c] = packet.exc]
               /\ loc' = [loc EXCEPT ![c] = CallerIdle]
               /\ pc' = [pc EXCEPT ![c] = "idle"]
          ELSE IF client_ws = "None"
          THEN /\ cexc' = [cexc EXCEPT ![c] = "AttributeError"]
               /\ loc' = [loc EXCEPT ![c] = CallerIdle]
               /\ pc' = [pc EXCEPT ![c] = "idle"]
          ELSE IF running
          THEN /\ pc' = [pc EXCEPT ![c] = "transmit"]
               /\ UNCHANGED <<cexc, loc>>
          ELSE /\ pc' = [pc EXCEPT ![c] = "idle"]
               /\ loc' = [loc EXCEPT ![c].cid = 0, ![c].op = "log",
                                     ![c].requester = VNone]
               /\ UNCHANGED cexc
    /\ UNCHANGED <<clientVars, identityVars, configVars, missing, enter_error,
                   threadVars,
                   transport, wire, workerVars, life>>

\* send(): self.ws.send(packet.as_bytes), that is send_binary
Transmit(c) ==
    /\ pc[c] = "transmit"
    /\ pc' = [pc EXCEPT ![c] = "idle"]
    /\ IF client_ws = "None"
       THEN /\ cexc' = [cexc EXCEPT ![c] = "AttributeError"]
            /\ loc' = [loc EXCEPT ![c] = CallerIdle]
            /\ UNCHANGED <<wire, slots>>
       ELSE /\ wire' = Append(wire,
                              IF loc[c].op = "get_meta"
                              THEN [type |-> 111, cid |-> loc[c].cid,
                                    requester |-> loc[c].requester]
                              ELSE [type |-> 104, cid |-> loc[c].cid])
            /\ slots' = [slots EXCEPT ![loc[c].handle].sent = TRUE]
            /\ loc' = [loc EXCEPT ![c].cid = 0, ![c].op = "log",
                                  ![c].requester = VNone]
            /\ UNCHANGED cexc
    /\ UNCHANGED <<command_id, command_events, client_ws, handlers,
                   identityVars, configVars, missing, enter_error, threadVars, transport,
                   workerVars, life>>

StrStatus == VStr(<<"s", "t", "a", "t", "u", "s">>)

StrMsg == VStr(<<"m", "s", "g">>)

StrOk == VStr(<<"o", "k">>)

StrFail == VStr(<<"f", "a", "i", "l">>)

\* CommandResult.get once the event is set: got is what it raises
\* ("returned" when it returns self._result), status and msg what it
\* formats into the CommandFail
GetOutcome(result) ==
    IF result = VNone
    THEN [got |-> "CommandError", status |-> VNone, msg |-> VNone]
    ELSE IF result.t # "dict"
    THEN [got |-> "CommandFail", status |-> VNone, msg |-> VNone]
    ELSE LET status == DictGet(result, StrStatus, StrFail)
         IN IF status # StrOk
            THEN [got |-> "CommandFail", status |-> status,
                  msg |-> DictGet(result, StrMsg, VStr(<<>>))]
            ELSE [got |-> "returned", status |-> status, msg |-> VNone]

\* CommandResult.get: self._event.wait(timeout) returns True
GetReturn(c) ==
    /\ pc[c] = "idle"
    /\ loc[c].handle # 0
    /\ slots[loc[c].handle].event
    /\ LET h == loc[c].handle
       IN slots' = [slots EXCEPT ![h].got = GetOutcome(slots[h].result).got]
    /\ loc' = [loc EXCEPT ![c].handle = 0]
    /\ UNCHANGED <<command_id, command_events, client_ws, handlers,
                   identityVars, configVars, missing, enter_error, threadVars, transport, wire,
                   workerVars, life, pc, cexc>>

\* a get whose time-out takes the command's slot out of command_events
GetTimeoutReclaims(c) ==
    /\ pc[c] = "idle"
    /\ loc[c].handle # 0
    /\ ~slots[loc[c].handle].event
    /\ slots' = [slots EXCEPT ![loc[c].handle].got = "CommandTimeout"]
    /\ command_events' =
           [k \in {j \in DOMAIN command_events :
                      command_events[j] # loc[c].handle} |-> command_events[k]]
    /\ loc' = [loc EXCEPT ![c].handle = 0]
    /\ UNCHANGED <<command_id, client_ws, handlers, identityVars,
                   configVars, missing, enter_error, threadVars, transport, wire, workerVars,
                   life, pc, cexc>>

\* CommandResult.get: self._event.wait(timeout) returns False
GetTimeout(c) ==
    /\ pc[c] = "idle"
    /\ loc[c].handle # 0
    /\ ~slots[loc[c].handle].event
    /\ slots' = [slots EXCEPT ![loc[c].handle].got = "CommandTimeout"]
    /\ loc' = [loc EXCEPT ![c].handle = 0]
    /\ UNCHANGED <<command_id, command_events, client_ws, handlers,
                   identityVars, configVars, missing, enter_error, threadVars, transport, wire,
                   workerVars, life, pc, cexc>>

\* __exit__ up to its loop: self.close(), that is WebSocket.close(), then
\* self.ws = None and self.dispatcher.close()
ExitClose(c) ==
    /\ c = "main"
    /\ life = "entered"
    /\ pc[c] = "idle"
    /\ transport' = IF transport = "open" THEN "closing" ELSE transport
    /\ client_ws' = "None"
    /\ handlers' = {}
    /\ life' = "exiting"
    /\ pc' = [pc EXCEPT ![c] = "exit_loop"]
    /\ cexc' = [cexc EXCEPT ![c] = "none"]
    /\ UNCHANGED <<command_id, command_events, slots, identityVars,
                   configVars, missing, enter_error, threadVars, wire, workerVars, loc>>

\* __exit__: the test of "while self.command_events:"
ExitTest(c) ==
    /\ pc[c] = "exit_loop"
    /\ IF DOMAIN command_events = {}
       THEN /\ life' = "exited"
            /\ pc' = [pc EXCEPT ![c] = "idle"]
       ELSE /\ pc' = [pc EXCEPT ![c] = "exit_pop"]
            /\ UNCHANGED life
    /\ UNCHANGED <<clientVars, identityVars, configVars, missing, enter_error,
                   threadVars,
                   transport, wire, workerVars, loc, cexc>>

\* __exit__, the body of the loop:
\* command_id, result = self.command_events.popitem(); result.set(None).
\* popitem raises KeyError out of __exit__ when the worker has popped the
\* last slot since the test
ExitPop(c) ==
    /\ pc[c] = "exit_pop"
    /\ IF DOMAIN command_events = {}
       THEN /\ cexc' = [cexc EXCEPT ![c] = "KeyError"]
            /\ life' = "exited"
            /\ pc' = [pc EXCEPT ![c] = "idle"]
            /\ UNCHANGED <<command_events, slots>>
       ELSE /\ \E k \in DOMAIN command_events :
                  /\ command_events' = Without(command_events, k)
                  /\ slots' = set(slots, command_events[k], VNone)
            /\ pc' = [pc EXCEPT ![c] = "exit_loop"]
            /\ UNCHANGED <<cexc, life>>
    /\ UNCHANGED <<command_id, client_ws, handlers, identityVars,
                   configVars, missing, enter_error, threadVars, transport, wire, workerVars,
                   loc>>

\* ------------------------------------------------------------------------
\* The system
\* ------------------------------------------------------------------------

Next ==
    \/ OnRejected
    \/ \E graceful \in BOOLEAN : OnDisconnected(graceful)
    \/ OnReady
    \/ OnStartup
    \/ \E data \in Frames : OnBinary(data)
    \/ IdentityEventSet
    \/ RunFinally
    \/ \E c \in Callers :
          \/ EnterStart(c)
          \/ EnterReturn(c)
          \/ LogCommand(c)
          \/ CommandStore(c)
          \/ Send(c)
          \/ Transmit(c)
          \/ GetReturn(c)
          \/ GetTimeout(c)
          \/ ExitClose(c)
          \/ ExitTest(c)
          \/ ExitPop(c)

Spec == Init /\ [][Next]_vars

\* the same client whose callers issue their commands through get_meta
FacadeNext ==
    \/ OnRejected
    \/ \E graceful \in BOOLEAN : OnDisconnected(graceful)
    \/ OnReady
    \/ OnStartup
    \/ \E data \in Frames : OnBinary(data)
    \/ IdentityEventSet
    \/ RunFinally
    \/ \E c \in Callers :
          \/ EnterStart(c)
          \/ EnterReturn(c)
          \/ GetIdentity(c)
          \/ GetMetaCommand(c)
          \/ CommandStore(c)
          \/ Send(c)
          \/ Transmit(c)
          \/ GetReturn(c)
          \/ GetTimeout(c)
          \/ ExitClose(c)
          \/ ExitTest(c)
          \/ ExitPop(c)

FacadeSpec == Init /\ [][FacadeNext]_vars

\* ------------------------------------------------------------------------
\* The codec and the packet layer called on their own
\* ------------------------------------------------------------------------

\* every byte string over alphabet of length at most n
RECURSIVE BytesUpTo(_, _)
BytesUpTo(alphabet, n) ==
    IF n = 0 THEN {<<>>}
    ELSE LET shorter == BytesUpTo(alphabet, n - 1)
         IN shorter \cup {Append(bs, c) : bs \in shorter, c \in alphabet}

\* every sequence over S of length at most n
RECURSIVE SeqsUpTo(_, _)
SeqsUpTo(S, n) ==
    IF n = 0 THEN {<<>>}
    ELSE LET shorter == SeqsUpTo(S, n - 1)
         IN shorter \cup {Append(xs, x) : xs \in shorter, x \in S}

\* the integers and byte strings values are built from
CodecInts == (0 - MaxInt)..MaxInt

CodecBytes == {<<>>, <<"a">>}

CodecKeys == {<<"a">>, <<"b">>}

\* the dicts over S of at most n entries, and at most two, in every
\* insertion order
DictsOver(S, n) ==
    {VDict(<<>>)}
    \cup {VDict(<<VBytes(k), v>>) : k \in CodecKeys, v \in S}
    \cup IF n < 2 THEN {}
         ELSE UNION {{VDict(<<VBytes(k1), v1, VBytes(k2), v2>>) :
                         k2 \in CodecKeys \ {k1}, v1 \in S, v2 \in S} :
                     k1 \in CodecKeys}

\* the values of the allowed types nested to depth d: the containers of
\* integers and byte strings hold up to MaxItems items, the containers of
\* containers one
RECURSIVE CodecValues(_)
CodecValues(d) ==
    IF d = 0
    THEN {VInt(n) : n \in CodecInts} \cup {VBytes(bs) : bs \in CodecBytes}
    ELSE LET inner == CodecValues(d - 1)
             width == IF d = 1 THEN MaxItems ELSE 1
         IN inner
            \cup {VList(xs) : xs \in SeqsUpTo(inner, width)}
            \cup DictsOver(inner, width)

\* the bytes the inputs of decode are made of
InputBytes == {"i", "l", "d", "e", "1", "5", ":", "a", "x"}

\* a byte string whose length prefix exceeds the bytes available: b'5:ab'
InputTruncatedBytes == <<"5", ":", "a", "b">>

\* an unterminated integer: b'i12'
InputUnterminatedInteger == <<"i", "1", "2">>

\* an integer with no digits: b'ie'
InputEmptyInteger == <<"i", "e">>

\* an integer with a character that is no digit: b'i1xe'
InputIllegalDigit == <<"i", "1", "x", "e">>

\* a length prefix that is no number: b'x'
InputBadPrefix == <<"x">>

\* an unterminated list: b'li1e'
InputUnterminatedList == <<"l", "i", "1", "e">>

\* an unterminated map: b'd1:ai1e'
InputUnterminatedDict == <<"d", "1", ":", "a", "i", "1", "e">>

\* the end marker alone: b'e'
InputEndMarker == <<"e">>

\* a map whose key is followed by the end marker: b'd1:aee'
InputKeyWithoutValue == <<"d", "1", ":", "a", "e", "e">>

\* a list inside a list closed twice over: b'lleee'
InputSurplusEnd == <<"l", "l", "e", "e", "e">>

DecodeInputs ==
    BytesUpTo(InputBytes, MaxInputLen)
    \cup {InputTruncatedBytes, InputUnterminatedInteger, InputEmptyInteger,
          InputIllegalDigit, InputBadPrefix, InputUnterminatedList,
          InputUnterminatedDict, InputEndMarker, InputKeyWithoutValue,
          InputSurplusEnd}

\* a packet that is no list: b'i1e'
InputNotAList == <<"i", "1", "e">>

\* a packet that is the empty list: b'le'
InputEmptyList == <<"l", "e">>

\* a packet whose first element is no integer: b'l1:ae'
InputTagNotInteger == <<"l", "1", ":", "a", "e">>

\* a packet of a type that is not registered: b'li99ee'
InputUnknownTag == <<"l", "i", "9", "9", "e", "e">>

\* the byte strings given to from_bytes
PacketInputs ==
    DecodeInputs
    \cup {InputNotAList, InputEmptyList, InputTagNotInteger, InputUnknownTag}

\* the values an attribute of a declared type takes
AttributeValues(type) ==
    CASE type = "int" -> {VInt(n) : n \in CodecInts}
      [] type = "bytes" -> {VBytes(bs) : bs \in CodecBytes}
      [] type = "list" -> {VList(xs) : xs \in SeqsUpTo(CodecValues(0), 1)}
      [] type = "dict" -> DictsOver(CodecValues(0), 1)

\* the type-conformant argument lists for attributes i and after of attrs
RECURSIVE ArgumentsFrom(_, _)
ArgumentsFrom(attrs, i) ==
    IF i > Len(attrs) THEN {<<>>}
    ELSE {<<v>> \o rest : v \in AttributeValues(attrs[i][2]),
                          rest \in ArgumentsFrom(attrs, i + 1)}

\* the calls made: decode on each input, encode then decode on each value,
\* from_bytes on each input, and the round trip and the repr of each
\* registered packet class on each argument list, given as the list of the
\* packet type and the arguments
CodecCalls ==
    {Call("decode", VBytes(data)) : data \in DecodeInputs}
    \cup {Call("from_bytes", VBytes(data)) : data \in PacketInputs}
    \cup {Call("encode", v) : v \in CodecValues(MaxDepth)}
    \cup UNION {{Call("packet", VList(<<VInt(tag)>> \o args)) :
                     args \in ArgumentsFrom(attributes(tag), 1)} :
                 tag \in registry}
    \cup UNION {{Call("repr", VList(<<VInt(tag)>> \o args)) :
                     args \in ArgumentsFrom(attributes(tag), 1)} :
                 tag \in registry}

CodecInit ==
    /\ ClientInit
    /\ probe \in CodecCalls

\* bencode.decode(data)
Decode ==
    /\ probe.op = "decode"
    /\ ~probe.done
    /\ probe' = [probe EXCEPT !.done = TRUE, !.out = decode(probe.arg.b)]
    /\ UNCHANGED <<clientVars, identityVars, threadVars, workerVars,
                   callerVars, credentials, transport, wire, enter_error,
                   missing>>

\* bencode.decode(bencode.encode(v)): what encode raises ends the call
EncodeDecode ==
    /\ probe.op = "encode"
    /\ ~probe.done
    /\ LET encoded == encode(probe.arg)
       IN probe' = [probe EXCEPT
                       !.done = TRUE,
                       !.encoded = encoded,
                       !.out = IF encoded.st = "ok" THEN decode(encoded.b)
                               ELSE @]
    /\ UNCHANGED <<clientVars, identityVars, threadVars, workerVars,
                   callerVars, credentials, transport, wire, enter_error,
                   missing>>

\* M2MPacket.from_bytes(M2MPacket.create(tag, *args).as_bytes): what the
\* constructor or the encoder raises ends the call
PacketRoundTrip ==
    /\ probe.op = "packet"
    /\ ~probe.done
    /\ LET built == create(probe.arg.items[1].n, Tail(probe.arg.items))
           encoded == IF built.exc = "none" THEN as_bytes(built)
                      ELSE probe.encoded
       IN probe' = [probe EXCEPT
                       !.done = TRUE,
                       !.built = built,
                       !.encoded = encoded,
                       !.parsed = IF encoded.st = "ok"
                                  THEN from_bytes(encoded.b)
                                  ELSE @]
    /\ UNCHANGED <<clientVars, identityVars, threadVars, workerVars,
                   callerVars, credentials, transport, wire, enter_error,
                   missing>>

\* M2MPacket.from_bytes(packet_bytes)
FromBytes ==
    /\ probe.op = "from_bytes"
    /\ ~probe.done
    /\ probe' = [probe EXCEPT !.done = TRUE,
                              !.parsed = from_bytes(probe.arg.b)]
    /\ UNCHANGED <<clientVars, identityVars, threadVars, workerVars,
                   callerVars, credentials, transport, wire, enter_error,
                   missing>>

\* repr(M2MPacket.create(tag, *args)), as log.debug(' -> %r', packet) of
\* M2MClient.send and log.debug(' <- %r', packet) of on_binary format it
Repr ==
    /\ probe.op = "repr"
    /\ ~probe.done
    /\ LET built == create(probe.arg.items[1].n, Tail(probe.arg.items))
       IN probe' = [probe EXCEPT
                       !.done = TRUE,
                       !.built = built,
                       !.shown = IF built.exc = "none" THEN repr(built)
                                 ELSE @]
    /\ UNCHANGED <<clientVars, identityVars, threadVars, workerVars,
                   callerVars, credentials, transport, wire, enter_error,
                   missing>>

CodecNext ==
    \/ Decode
    \/ EncodeDecode
    \/ PacketRoundTrip
    \/ FromBytes
    \/ Repr

CodecSpec == CodecInit /\ [][CodecNext]_vars

\* ------------------------------------------------------------------------
\* The loops of the decoder, read by read at the end of the input
\* ------------------------------------------------------------------------

TerminationInit ==
    /\ ClientInit
    /\ probe \in {Call("decode", VBytes(data)) : data \in DecodeInputs}

\* bencode.decode(data) returns or raises: every loop of _decode met its
\* exit
DecodeEnds ==
    /\ probe.op = "decode"
    /\ ~probe.done
    /\ decode(probe.arg.b).st # "hang"
    /\ probe' = [probe EXCEPT !.done = TRUE, !.out = decode(probe.arg.b)]
    /\ UNCHANGED <<clientVars, identityVars, threadVars, workerVars,
                   callerVars, credentials, transport, wire, enter_error,
                   missing>>

\* the loop `while 1: c = read(1); if c == b':': break; size_bytes += c`
\* at the end of the input: read(1) returns b'', which is not b':'
DecodeReadsPastEnd ==
    /\ probe.op = "decode"
    /\ ~probe.done
    /\ decode(probe.arg.b).st = "hang"
    /\ probe.at = "read"
    /\ probe' = [probe EXCEPT !.at = "append"]
    /\ UNCHANGED <<clientVars, identityVars, threadVars, workerVars,
                   callerVars, credentials, transport, wire, enter_error,
                   missing>>

\* the same loop: size_bytes += b'' changes nothing, and the loop reads
\* again
DecodeAppendsNothing ==
    /\ probe.op = "decode"
    /\ ~probe.done
    /\ probe.at = "append"
    /\ probe' = [probe EXCEPT !.at = "read"]
    /\ UNCHANGED <<clientVars, identityVars, threadVars, workerVars,
                   callerVars, credentials, transport, wire, enter_error,
                   missing>>

TerminationNext ==
    \/ DecodeEnds
    \/ DecodeReadsPastEnd
    \/ DecodeAppendsNothing

\* the thread that called decode keeps running
TerminationSpec ==
    TerminationInit /\ [][TerminationNext]_vars /\ WF_vars(TerminationNext)

\* ------------------------------------------------------------------------
\* Properties
\* ------------------------------------------------------------------------

\* the keys and values of a result mapping as bencode decodes them
BytesStatus == VBytes(<<"s", "t", "a", "t", "u", "s">>)

BytesMsg == VBytes(<<"m", "s", "g">>)

BytesOk == VBytes(<<"o", "k">>)

\* the response completed slot i with a mapping whose status is ok
ServerSaidOk(i) ==
    /\ slots[i].result.t = "dict"
    /\ DictGet(slots[i].result, BytesStatus, VNone) = BytesOk

\* C1: every command gets an id strictly greater than every id given
\* before it, the first being 1, so no two commands share an id, also when
\* several threads call command() at once
C1_CommandIdsStrictlyIncrease ==
    /\ \A i \in DOMAIN slots : slots[i].cid >= 1
    /\ Len(slots) >= 1 => slots[1].cid = 1
    /\ \A i, j \in DOMAIN slots : i < j => slots[i].cid < slots[j].cid

\* C2: a response whose command id has no slot in command_events is
\* logged and dropped: on_command raises nothing and the worker goes on
C2_UnknownResponseRaisesNothing == wexc.from # "on_command"

\* C3: a frame for which from_bytes fails is logged and discarded; it
\* never ends the worker, which neither dies of the exception nor hangs
C3_BadFrameNeverEndsWorker == wexc.from # "from_bytes"

\* C4: a handler that raises, or a parameter coercion that fails, is fatal
\* to that one message only: the receive loop of run() keeps running
C4_HandlerFailureNeverEndsWorker == wexc.from \notin {"handler", "coercion"}

\* C5: on teardown, by __exit__ or by the worker stopping, every command
\* that was handed to the transport and is still pending is completed (its
\* event set) and is no longer in command_events
C5_TeardownCompletesPending ==
    Closed => \A i \in DOMAIN slots :
                  slots[i].sent => (slots[i].event /\ i \notin Pending)

\* C6: once the connection is closed (the worker has ended or __exit__ has
\* run) a call of send is a logged no-op: it hands nothing to the
\* transport and raises nothing into its caller
C6_SendAfterCloseIsNoOp ==
    [][\A c \in Callers :
          (Closed /\ pc[c] = "send" /\ pc'[c] # "send")
              => (cexc'[c] = "none" /\ pc'[c] = "idle" /\ wire' = wire)]_vars

\* C7: every slot is completed at most once, a completed slot is no longer
\* in command_events, and once __exit__ has run every command handed to
\* the transport has been completed exactly once
C7_CompletedExactlyOnce ==
    /\ \A i \in DOMAIN slots : slots[i].sets <= 1
    /\ \A i \in DOMAIN slots : slots[i].sets >= 1 => i \notin Pending
    /\ life = "exited" =>
           \A i \in DOMAIN slots : slots[i].sent => slots[i].sets = 1

C9_OkResponseIsReturned ==
    \A i \in DOMAIN slots :
        (ServerSaidOk(i) /\ slots[i].got \notin {"none", "CommandTimeout"})
            => slots[i].got = "returned"

\* C10: when the response carries a mapping whose status is absent or not
\* ok, get raises CommandFail with the message the server supplied; a
\* missing result or one that is no mapping raises too; none is returned
C10_FailureCarriesServerMessage ==
    \A i \in DOMAIN slots :
        (slots[i].event /\ ~ServerSaidOk(i)) =>
            LET outcome == GetOutcome(slots[i].result)
                supplied == DictGet(slots[i].result, BytesMsg, VNone)
            IN /\ outcome.got \in {"CommandFail", "CommandError"}
               /\ slots[i].result.t = "dict" => outcome.got = "CommandFail"
               /\ (slots[i].result.t = "dict" /\ supplied # VNone)
                      => outcome.msg.b = supplied.b

\* C11: __enter__ returns the client only once the connection is ready in
\* the sense of the state machine: the transport has reported ready and
\* the set_identity packet has been received
C11_EnterReturnsOnlyWithIdentity ==
    life = "entered" => (identity_event /\ identity # VNone)

IdentitySent == Attr(from_bytes(FrameSetIdentity), "identity")

\* C13: get_identity returns only after a set_identity packet has been
\* dispatched (its event is set) and then returns the identity bytes of
\* the packet, never None; without the packet it raises NoIdentity and
\* get_meta does nothing more; so every command_get_meta handed to the
\* transport carries the identity as its requester
C13_IdentityBeforeFacadeCommand ==
    /\ [][\A c \in Callers :
             (pc[c] = "idle" /\ pc'[c] = "facade")
                 => (/\ identity_event
                     /\ loc'[c].requester = identity
                     /\ loc'[c].requester = IdentitySent)]_vars
    /\ [][\A c \in Callers :
             (GetIdentity(c) /\ ~identity_event)
                 => (/\ cexc'[c] = "NoIdentity"
                     /\ pc'[c] = "idle"
                     /\ wire' = wire
                     /\ slots' = slots)]_vars
    /\ [](identity_event => identity = IdentitySent)
    /\ [](\A i \in DOMAIN wire :
             wire[i].type = 111 => wire[i].requester = IdentitySent)

\* C13, the case: set_identity was dispatched, get_identity returned its
\* identity and get_meta handed its command to the transport with it
C13_GetMetaSentWithIdentity ==
    /\ identity_event
    /\ \E i \in DOMAIN wire :
           wire[i].type = 111 /\ wire[i].requester = IdentitySent

\* C14: at the ready event the client sends a join request and then,
\* only when credentials are configured, a login request, both before a
\* caller waiting for ready is released; so when __enter__ has returned
\* the join request is on the wire, and a client without credentials
\* still joins and keeps running
C14_JoinThenOptionalLogin ==
    /\ (ready_event /\ running) =>
           (/\ Len(wire) >= 1 /\ wire[1].type = 1
            /\ credentials => (Len(wire) >= 2 /\ wire[2].type = 15))
    /\ life = "entered" => (Len(wire) >= 1 /\ wire[1].type = 1)
    /\ \A i \in DOMAIN wire : wire[i].type = 15 => (credentials /\ i = 2)
    /\ ~credentials => wexc.from # "on_startup"

\* C15: dispatching a packet whose type has no bound handler only calls
\* on_missing_handler: nothing is raised, no handler runs, the worker goes
\* on; and once __exit__ has closed the dispatcher no type has a binding
C15_MissingHandlerIsNoOp ==
    /\ [][nframes' # nframes =>
             \A data \in Frames :
                 (/\ Decoded[data].exc = "none"
                  /\ Decoded[data].type \notin handlers
                  /\ OnBinary(data))
                     => (/\ missing' = missing \cup {Decoded[data].type}
                         /\ wpc' = "loop"
                         /\ UNCHANGED <<command_events, slots, identity,
                                        identity_event, wexc>>)]_vars
    /\ [](life \in {"exiting", "exited"} => handlers = {})

\* C15, the case: a keep_alive, which never has a handler, and a
\* response, whose handler the closed dispatcher no longer binds, have
\* both been dispatched and the worker is still in its loop
C15_UnboundAndClosedDispatched ==
    /\ 13 \in missing
    /\ 100 \in missing
    /\ handlers = {}
    /\ wpc = "loop"

\* C16: when a handler is bound and a declared coercion fails,
\* dispatch_packet raises its PacketFormatError and the handler body does
\* not run: nothing the handlers write changes and the exception is not
\* the handler's
C16_CoercionFailureSkipsHandler ==
    [][nframes' # nframes =>
          \A data \in Frames :
              (/\ Decoded[data].exc = "none"
               /\ Decoded[data].type \in handlers
               /\ ~CoercionsSucceed(Decoded[data])
               /\ OnBinary(data))
                  => (/\ wexc' = [exc |-> "dispatcher.PacketFormatError",
                                  from |-> "coercion"]
                      /\ UNCHANGED <<command_events, slots, identity,
                                     identity_event, missing>>)]_vars

\* C16, the case: a coercion has failed and PacketFormatError has left
\* dispatch_packet
C16_CoercionFailed ==
    /\ wexc = [exc |-> "dispatcher.PacketFormatError", from |-> "coercion"]
    /\ nframes >= 1


\* the inputs of the codec calls that violate the structure of bencode:
\* each ends before its value does or has no number where one is due
StructurallyInvalid ==
    {InputTruncatedBytes, InputUnterminatedInteger, InputEmptyInteger,
     InputIllegalDigit, InputBadPrefix, InputUnterminatedList,
     InputUnterminatedDict}

\* whether the end marker (None) occurs in a decoded value
RECURSIVE HoldsEndMarker(_)
HoldsEndMarker(v) ==
    \/ v.t = "none"
    \/ \E i \in DOMAIN v.items : HoldsEndMarker(v.items[i])

\* C17: for every value v built from byte strings, signed integers, lists
\* and maps with byte string keys, decode(encode(v)) returns and what it
\* returns equals v.
C17_DecodeInvertsEncode ==
    (probe.op = "encode" /\ probe.done) =>
        /\ probe.encoded.st = "ok"
        /\ probe.out.st = "ok"
        /\ PyEq(probe.out.v, probe.arg)

\* C18: decode fails with DecodeError on every structurally invalid
\* input; it returns no value for it and fails with no other error.
C18_InvalidInputRaisesDecodeError ==
    (probe.op = "decode" /\ probe.done /\ probe.arg.b \in StructurallyInvalid)
        => probe.out.st = "DecodeError"

\* C19: decode never returns the end marker, neither as its result nor as
\* an element of a list or a value of a map in its result.
C19_EndMarkerNeverReturned ==
    (probe.op = "decode" /\ probe.done /\ probe.out.st = "ok")
        => ~HoldsEndMarker(probe.out.v)

\* C20: for every registered packet class and every type-conformant
\* choice of attribute values, negative integers included, from_bytes of
\* the packet's as_bytes yields a packet of the same class with equal
\* attribute values.
C20_FromBytesInvertsAsBytes ==
    (probe.op = "packet" /\ probe.done /\ probe.built.exc = "none") =>
        /\ probe.encoded.st = "ok"
        /\ probe.parsed.exc = "none"
        /\ probe.parsed.type = probe.built.type
        /\ Len(probe.parsed.vals) = Len(probe.built.vals)
        /\ \A i \in DOMAIN probe.built.vals :
               PyEq(probe.parsed.vals[i], probe.built.vals[i])

\* the packet classes that replace PacketBase.as_bytes: Null, Welcome,
\* Log, Route, Ping, SetIdentity, NotifyOpen, NotifyClose
ShortcutTypes == {0, 3, 4, 6, 7, 9, 14, 19}

\* C21: for every packet class with a constant or shortcut as_bytes and
\* every attribute value, as_bytes is byte for byte the encoding of the
\* list of the type tag and the attributes in declared order.
C21_ShortcutEqualsGenericEncoding ==
    (/\ probe.op = "packet"
     /\ probe.done
     /\ probe.built.exc = "none"
     /\ probe.built.type \in ShortcutTypes)
        => probe.encoded = generic_as_bytes(probe.built)

\* a Route with a negative port and data has been serialized by its
\* shortcut
C21_SignedPortShortcut ==
    /\ probe.op = "packet"
    /\ probe.done
    /\ probe.built.exc = "none"
    /\ probe.built.type = 6
    /\ Attr(probe.built, "port").n < 0
    /\ Attr(probe.built, "data").b # <<>>
    /\ probe.encoded.st = "ok"

\* C22: from_bytes raises PacketFormatError for every input whose decoded
\* value is not a list that starts with an integer (a value that is no
\* list, the empty list, a list whose first element is no integer) and
\* UnknownPacketError when that integer is not registered; it raises
\* nothing else for such inputs.
C22_MalformedPacketRaisesPacketError ==
    (probe.op = "from_bytes" /\ probe.done) =>
        LET d == decode(probe.arg.b)
        IN /\ (/\ d.st = "ok"
               /\ \/ d.v.t # "list"
                  \/ d.v.items = <<>>
                  \/ d.v.items[1].t # "int")
                  => probe.parsed.exc = "packetbase.PacketFormatError"
           /\ (/\ d.st = "ok"
               /\ d.v.t = "list"
               /\ d.v.items # <<>>
               /\ d.v.items[1].t = "int"
               /\ d.v.items[1].n \notin registry)
                  => probe.parsed.exc = "UnknownPacketError"

\* the value v with the entries of every dict in it inserted in the
\* opposite order
RECURSIVE Reordered(_)
Reordered(v) ==
    IF v.t = "dict"
    THEN LET n == Len(v.items) \div 2
         IN VDict([i \in 1..(2 * n) |->
                      LET j == n - ((i + 1) \div 2) + 1
                      IN IF i % 2 = 1 THEN v.items[2 * j - 1]
                         ELSE Reordered(v.items[2 * j])])
    ELSE IF v.t = "list"
    THEN VList([i \in 1..Len(v.items) |-> Reordered(v.items[i])])
    ELSE v

\* whether the keys of the dict value d stand in ascending order
KeysAscend(d) ==
    \A i \in 1..(Len(Keys(d)) - 1) : BytesLess(Keys(d)[i].b, Keys(d)[i + 1].b)

\* C23: encode writes the keys of a map in ascending byte order whatever
\* the order of insertion, so the same map inserted in another order
\* encodes to the same bytes.
C23_KeysEncodedInAscendingOrder ==
    (probe.op = "encode" /\ probe.done) =>
        /\ PyEq(Reordered(probe.arg), probe.arg)
        /\ encode(Reordered(probe.arg)) = probe.encoded
        /\ (probe.arg.t = "dict" /\ probe.out.st = "ok")
               => KeysAscend(probe.out.v)

\* a map whose keys were inserted in descending order has been encoded and
\* read back
C23_DescendingInsertionEncoded ==
    /\ probe.op = "encode"
    /\ probe.done
    /\ probe.arg.t = "dict"
    /\ Len(probe.arg.items) = 4
    /\ BytesLess(probe.arg.items[3].b, probe.arg.items[1].b)
    /\ probe.out.st = "ok"
    /\ probe.out.v.items[1] = probe.arg.items[3]

\* C24: the repr of a packet does not depend on its password: a
\* RequestLogin packet with the same username and any other password has
\* the same repr, and the password is not among the values shown.
C24_ReprHidesPassword ==
    (probe.op = "repr" /\ probe.done /\ probe.built.exc = "none"
     /\ probe.built.type = 15) =>
        /\ \A password \in AttributeValues("bytes") :
               repr(create(15, <<Attr(probe.built, "username"), password>>))
                   = probe.shown
        /\ \A i \in DOMAIN probe.shown.params :
               probe.shown.params[i][1] = "password"
                   => probe.shown.params[i][2] = Masked

\* the repr of a RequestLogin with a password that is not empty has been
\* taken
C24_LoginWithPasswordShown ==
    /\ probe.op = "repr"
    /\ probe.done
    /\ probe.built.exc = "none"
    /\ probe.built.type = 15
    /\ Attr(probe.built, "password").b # <<>>
    /\ Len(probe.shown.params) = 2

\* C25: no frame is handed to the transport once the connection is
\* closed: send_binary is never called when the worker has stopped, and
\* send never raises on a ws that __exit__ has set to None.
C25_NoFrameOnceClosed ==
    [][/\ wire' # wire => running
       /\ \A c \in Callers :
              cexc'[c] = "AttributeError" => cexc[c] = "AttributeError"]_vars

\* C26: decode terminates on every finite byte string: every call of
\* decode eventually returns a value or raises.
C26_DecodeTerminates == <>probe.done

\* C27: every CommandResult in command_events belongs to a command whose
\* request was handed to the transport: once send has returned or raised,
\* a command that was not sent has left no slot in the table.
C27_PendingSlotsWereSent ==
    \A i \in Pending :
        \/ slots[i].sent
        \/ \E c \in Callers :
               pc[c] \in {"send", "transmit"} /\ loc[c].handle = i

\* C28: dispatching a response for command id k to on_command changes
\* slot k only: entry k leaves command_events and its CommandResult is
\* completed with the result; every other entry of the table, every other
\* CommandResult, the command id counter and the identity stay as they
\* were.
C28_ResponseTouchesOnlyItsSlot ==
    [][nframes' # nframes =>
          \A data \in Frames :
              (/\ Decoded[data].exc = "none"
               /\ Decoded[data].type = 100
               /\ 100 \in handlers
               /\ OnBinary(data)) =>
                  LET k == Attr(Decoded[data], "command_id").n
                  IN /\ command_id' = command_id
                     /\ identity' = identity
                     /\ identity_event' = identity_event
                     /\ DOMAIN command_events' = DOMAIN command_events \ {k}
                     /\ \A j \in DOMAIN command_events' :
                            command_events'[j] = command_events[j]
                     /\ \A i \in DOMAIN slots :
                            (k \notin DOMAIN command_events
                             \/ i # command_events[k])
                                => slots'[i] = slots[i]
                     /\ k \in DOMAIN command_events =>
                            /\ slots'[command_events[k]].event
                            /\ slots'[command_events[k]].result
                                   = Attr(Decoded[data], "result")]_vars

\* a response has completed the first command while the second is still
\* pending and not completed
C28_ResponseWithAnotherPending ==
    /\ Len(slots) = 2
    /\ slots[1].sets = 1
    /\ slots[1].result # VNone
    /\ 1 \notin Pending
    /\ 2 \in Pending
    /\ ~slots[2].event

=============================================================================
